---- MODULE Spec2Model ----
(***************************************************************************)
(* Favorited-DAO cache and query layer: the react-query hooks over the     *)
(* favorites store (listing, infinite listing, point lookup, add / remove  *)
(* / update mutations) and the chain registry they key their queries by.   *)
(***************************************************************************)
EXTENDS Integers, Sequences, FiniteSets, TLC

VARIABLES
  daos,          \* the favorites collection held by the persistence backend
  limit,         \* the `limit` option of the mounted infinite listing hook
  listQ,         \* cache entry ['favoriteDaos']
  listObservers, \* skip values of the mounted useFavoritedDaosQuery hooks
  infQ,          \* cache entry ['infiniteFavoriteDaos']
  pointQ,        \* cache entries ['favoritedDao', address, network]
  mut,           \* the most recent mutation and how it went
  lookup         \* outcome of the most recent useFavoritedDaoQuery call

vars == <<daos, limit, listQ, listObservers, infQ, pointQ, mut, lookup>>

Undefined == "undefined"

Min(a, b) == IF a < b THEN a ELSE b

Max(a, b) == IF a > b THEN a ELSE b

(***************************************************************************)
(* Chain registry (utils/constants)                                        *)
(***************************************************************************)
SUPPORTED_CHAIN_ID == <<1, 5, 137, 80001, 42161, 421613>>

isSupportedChainId(chainId) ==
  \E i \in 1..Len(SUPPORTED_CHAIN_ID) : SUPPORTED_CHAIN_ID[i] = chainId

SUPPORTED_NETWORKS ==
  {"ethereum", "goerli", "polygon", "mumbai", "arbitrum", "arbitrum-test"}

\* The entries of CHAIN_METADATA in property order, as Object.entries
\* enumerates them: <<network name, chain id>>.
CHAIN_METADATA ==
  << <<"arbitrum", 42161>>, <<"ethereum", 1>>, <<"polygon", 137>>,
     <<"arbitrum-test", 421613>>, <<"goerli", 5>>, <<"mumbai", 80001>>,
     <<"unsupported", 1>> >>

NetworkNames == {CHAIN_METADATA[i][1] : i \in 1..Len(CHAIN_METADATA)}

\* CHAIN_METADATA[network].id
ChainIdOf(network) ==
  LET i == CHOOSE j \in 1..Len(CHAIN_METADATA) : CHAIN_METADATA[j][1] = network
  IN  CHAIN_METADATA[i][2]

\* A plausible slip: the last matching entry instead of the first.
getSupportedNetworkByChainId_last(chainId) ==
  IF isSupportedChainId(chainId)
  THEN LET hits == {j \in 1..Len(CHAIN_METADATA) : CHAIN_METADATA[j][2] = chainId}
       IN  IF hits = {} THEN Undefined
           ELSE CHAIN_METADATA[CHOOSE j \in hits : \A k \in hits : j >= k][1]
  ELSE Undefined

getSupportedNetworkByChainId(chainId) ==
  IF isSupportedChainId(chainId)
  THEN LET hits == {j \in 1..Len(CHAIN_METADATA) : CHAIN_METADATA[j][2] = chainId}
       IN  IF hits = {} THEN Undefined
           ELSE CHAIN_METADATA[CHOOSE j \in hits : \A k \in hits : j <= k][1]
  ELSE Undefined

(***************************************************************************)
(* Persistence backend (services/cache) and avatar resolver                *)
(***************************************************************************)
SameKey(a, b) == a.address = b.address /\ a.chain = b.chain

\* An absent `limit` option.
NoLimit == 0

\* list(skip, limit?): the slice of the collection from offset skip.
getFavoritedDaosFromCache(store, skip, lim) ==
  LET last == IF lim = NoLimit THEN Len(store) ELSE Min(skip + lim, Len(store))
  IN  IF skip + 1 > last THEN <<>> ELSE SubSeq(store, skip + 1, last)

\* get(chain, address): <<record>> when favorited, <<>> when not.
getFavoritedDaoFromCache(store, daoAddress, chain) ==
  LET hits == {i \in 1..Len(store) :
                 store[i].address = daoAddress /\ store[i].chain = chain}
  IN  IF hits = {} THEN <<>> ELSE <<store[CHOOSE i \in hits : TRUE]>>

addFavoriteDaoToCache(store, dao) == Append(store, dao)

removeFavoriteDaoFromCache(store, dao) ==
  SelectSeq(store, LAMBDA d : ~SameKey(d, dao))

updateFavoritedDaoInCache(store, dao) ==
  [i \in 1..Len(store) |-> IF SameKey(store[i], dao) THEN dao ELSE store[i]]

\* A raw avatar reference is <<"cid", c>>; a resolved one names the network
\* whose gateway serves it.
resolveDaoAvatarIpfsCid(network, avatar) == <<"url", network, avatar[2]>>

(***************************************************************************)
(* Result transforms (select)                                              *)
(***************************************************************************)
addAvatarToDaos(ds) ==
  [i \in 1..Len(ds) |->
     LET network == getSupportedNetworkByChainId(ds[i].chain)
     IN  [address |-> ds[i].address,
          chain   |-> ds[i].chain,
          avatar  |-> resolveDaoAvatarIpfsCid(
                        IF network = Undefined THEN "unsupported" ELSE network,
                        ds[i].avatar)]]

RECURSIVE FlatMapAvatar(_)
FlatMapAvatar(pages) ==
  IF pages = <<>> THEN <<>>
  ELSE addAvatarToDaos(Head(pages)) \o FlatMapAvatar(Tail(pages))

RECURSIVE Flat(_)
Flat(pages) == IF pages = <<>> THEN <<>> ELSE Head(pages) \o Flat(Tail(pages))

\* A plausible slip: the pages are flattened but the records are not augmented.
augmentCachedDaos_raw(data) ==
  [pageParams |-> data.pageParams,
   pages      |-> Flat(data.pages)]

augmentCachedDaos(data) ==
  [pageParams |-> data.pageParams,
   pages      |-> FlatMapAvatar(data.pages)]

(***************************************************************************)
(* Infinite listing query                                                  *)
(***************************************************************************)
DEFAULT_QUERY_PARAMS_skip == 0

DEFAULT_QUERY_PARAMS_limit == 4

\* getNextPageParam's `undefined`: no further page.
NoNextPage == -1

Absent == [status |-> "absent", pages |-> <<>>, pageParams |-> <<>>, invalid |-> FALSE]

queryFnInfinite(store, lim, pageParam) ==
  getFavoritedDaosFromCache(store, lim * pageParam, lim)

\* A plausible slip: a non-empty page is taken to announce a further one.
getNextPageParam_nonEmpty(lastPage, allPages, lim) ==
  IF Len(lastPage) > 0 THEN Len(allPages) ELSE NoNextPage

getNextPageParam(lastPage, allPages, lim) ==
  IF Len(lastPage) = lim THEN Len(allPages) ELSE NoNextPage

hasNextPage(q, lim) ==
  /\ q.status = "success"
  /\ getNextPageParam(q.pages[Len(q.pages)], q.pages, lim) # NoNextPage

\* A (re)fetch of the query loads page 0 and then, through getNextPageParam,
\* as many further pages as the entry held before.
RECURSIVE FetchPages(_, _, _, _)
FetchPages(store, lim, q, k) ==
  IF Len(q.pages) >= k THEN q
  ELSE LET param == IF q.pages = <<>> THEN 0
                    ELSE getNextPageParam(q.pages[Len(q.pages)], q.pages, lim)
       IN  IF param = NoNextPage THEN q
           ELSE FetchPages(store, lim,
                  [q EXCEPT !.pages = Append(@, queryFnInfinite(store, lim, param)),
                            !.pageParams = Append(@, param)], k)

FetchInfinite(store, lim, q) ==
  FetchPages(store, lim,
             [status |-> "success", pages |-> <<>>, pageParams |-> <<>>,
              invalid |-> FALSE],
             Max(1, Len(q.pages)))

\* The hook is mounted (or its entry refetched); a disabled hook does nothing.
useFavoritedDaosInfiniteQuery(enabled) ==
  /\ infQ' = IF enabled THEN FetchInfinite(daos, limit, infQ) ELSE infQ
  /\ UNCHANGED <<daos, limit, listQ, listObservers, pointQ, mut, lookup>>

fetchNextPage ==
  /\ hasNextPage(infQ, limit)
  /\ LET param == getNextPageParam(infQ.pages[Len(infQ.pages)], infQ.pages, limit)
     IN  infQ' = [infQ EXCEPT
                    !.pages = Append(@, queryFnInfinite(daos, limit, param)),
                    !.pageParams = Append(@, param)]
  /\ UNCHANGED <<daos, limit, listQ, listObservers, pointQ, mut, lookup>>

\* What the hook hands to its caller.
InfiniteResult == augmentCachedDaos([pages |-> infQ.pages, pageParams |-> infQ.pageParams])

(***************************************************************************)
(* Query cache: invalidation by key                                        *)
(***************************************************************************)
AbsentList == [status |-> "absent", data |-> <<>>, invalid |-> FALSE, skip |-> 0]

\* invalidateQueries marks the entry stored under the key, if there is one.
invalidateQueries(q) ==
  IF q.status = "absent" THEN q ELSE [q EXCEPT !.invalid = TRUE]

invalidatePointQuery(pq, daoAddress, network) ==
  [k \in DOMAIN pq |->
     IF k = <<daoAddress, network>> THEN [pq[k] EXCEPT !.invalid = TRUE] ELSE pq[k]]

\* The entry holds data that is not marked for refetching.
Valid(q) == q.status = "success" /\ ~q.invalid

\* The next observation of the entry has to fetch.
NeedsFetch(q) == q.status = "absent" \/ q.invalid

(***************************************************************************)
(* Offset-paginated listing query                                          *)
(***************************************************************************)
FetchList(store, skip) ==
  [status |-> "success", data |-> getFavoritedDaosFromCache(store, skip, NoLimit),
   invalid |-> FALSE, skip |-> skip]

\* What every mounted listing hook hands to its caller.
ListResult == addAvatarToDaos(listQ.data)

\* A hook is mounted with `skip`: its queryFn becomes the entry's and runs.
useFavoritedDaosQuery(skip) ==
  /\ listObservers' = listObservers \cup {skip}
  /\ listQ' = FetchList(daos, skip)
  /\ UNCHANGED <<daos, limit, infQ, pointQ, mut, lookup>>

\* The refetch an invalidation sets off: the entry's current queryFn runs.
refetchFavoriteDaos ==
  /\ listQ.status = "success" /\ listQ.invalid
  /\ listObservers # {}
  /\ listQ' = FetchList(daos, listQ.skip)
  /\ UNCHANGED <<daos, limit, listObservers, infQ, pointQ, mut, lookup>>

refetchInfiniteFavoriteDaos ==
  /\ infQ.status = "success" /\ infQ.invalid
  /\ infQ' = FetchInfinite(daos, limit, infQ)
  /\ UNCHANGED <<daos, limit, listQ, listObservers, pointQ, mut, lookup>>

(***************************************************************************)
(* Point lookup query                                                      *)
(***************************************************************************)
MaxPointQueries == 1

\* Which arguments the call had, whether it ended in an error, and whether
\* queryFn was run.
Called(daoAddress, network, outcome, requested) ==
  [hasAddress |-> daoAddress # Undefined, hasNetwork |-> network # Undefined,
   outcome |-> outcome, requested |-> requested]

NoLookup == Called(Undefined, Undefined, "none", FALSE)

FetchPoint(store, daoAddress, network) ==
  [data |-> getFavoritedDaoFromCache(store, daoAddress, ChainIdOf(network)),
   invalid |-> FALSE]

PutPoint(pq, key, entry) ==
  [k \in DOMAIN pq \cup {key} |-> IF k = key THEN entry ELSE pq[k]]

useFavoritedDaoQuery(daoAddress, network) ==
  /\ IF network \notin NetworkNames
     THEN \* CHAIN_METADATA[network] is undefined: reading `.id` throws
          /\ lookup' = Called(daoAddress, network, "threw", FALSE)
          /\ UNCHANGED pointQ
     ELSE IF ~(daoAddress # Undefined /\ network # Undefined)
     THEN /\ lookup' = Called(daoAddress, network, "disabled", FALSE)
          /\ UNCHANGED pointQ
     ELSE /\ \/ <<daoAddress, network>> \in DOMAIN pointQ
             \/ Cardinality(DOMAIN pointQ) < MaxPointQueries
          /\ lookup' = Called(daoAddress, network, "fetched", TRUE)
          /\ pointQ' = PutPoint(pointQ, <<daoAddress, network>>,
                                FetchPoint(daos, daoAddress, network))
  /\ UNCHANGED <<daos, limit, listQ, listObservers, infQ, mut>>

refetchFavoritedDao(key) ==
  /\ key \in DOMAIN pointQ
  /\ pointQ[key].invalid
  /\ pointQ' = PutPoint(pointQ, key, FetchPoint(daos, key[1], key[2]))
  /\ UNCHANGED <<daos, limit, listQ, listObservers, infQ, mut, lookup>>

(***************************************************************************)
(* Mutations                                                               *)
(***************************************************************************)
MaxDaos == 2

NoDao == [address |-> "", chain |-> 0, avatar |-> <<"cid", "">>]

NotSeen == [list |-> FALSE, inf |-> FALSE]

NoMutation == [kind |-> "none", dao |-> NoDao, status |-> "idle", hasCb |-> FALSE,
               cbCalled |-> FALSE, cbSaw |-> NotSeen, log |-> <<>>]

HasKey(store, dao) == \E i \in 1..Len(store) : SameKey(store[i], dao)

\* mutate({dao}): mutationFn is called and its promise is pending.  A record
\* is added only when its key is not in the collection, which holds at most
\* `cap` records.
mutate(kind, dao, hasCb, cap) ==
  /\ mut.status # "pending"
  /\ kind = "add" => (~HasKey(daos, dao) /\ Len(daos) < cap)
  /\ kind = "update" => ~hasCb
  /\ mut' = [kind |-> kind, dao |-> dao, status |-> "pending", hasCb |-> hasCb,
             cbCalled |-> FALSE, cbSaw |-> NotSeen, log |-> <<>>]
  /\ UNCHANGED <<daos, limit, listQ, listObservers, infQ, pointQ, lookup>>

\* What a caller's completion callback finds in the cache when it runs.
Seen(lq, iq) == [list |-> Valid(lq), inf |-> Valid(iq)]

\* A plausible slip: the point lookup is left out of the invalidation.
onSuccessUpdate_noPoint(m, lq, iq, pq) ==
  [list |-> invalidateQueries(lq), inf |-> invalidateQueries(iq), point |-> pq,
   cbCalled |-> FALSE, cbSaw |-> NotSeen, log |-> <<"write", "invalidate">>]

onSuccessUpdate(m, lq, iq, pq) ==
  LET network == getSupportedNetworkByChainId(m.dao.chain)
  IN  [list  |-> invalidateQueries(lq),
       inf   |-> invalidateQueries(iq),
       point |-> invalidatePointQuery(pq, m.dao.address, network),
       cbCalled |-> FALSE, cbSaw |-> NotSeen, log |-> <<"write", "invalidate">>]

\* A plausible slip: the same invalidation scope as the update mutation.
onSuccessAdd_point(m, lq, iq, pq) ==
  [list  |-> invalidateQueries(lq),
   inf   |-> invalidateQueries(iq),
   point |-> invalidatePointQuery(pq, m.dao.address,
                                  getSupportedNetworkByChainId(m.dao.chain)),
   cbCalled |-> m.hasCb,
   cbSaw |-> IF m.hasCb THEN Seen(lq, iq) ELSE NotSeen,
   log   |-> IF m.hasCb THEN <<"write", "callback", "invalidate">>
             ELSE <<"write", "invalidate">>]

\* A plausible slip: the callback is called after the invalidations.
onSuccessAdd_cbLast(m, lq, iq, pq) ==
  [list  |-> invalidateQueries(lq),
   inf   |-> invalidateQueries(iq),
   point |-> pq,
   cbCalled |-> m.hasCb,
   cbSaw |-> IF m.hasCb THEN Seen(invalidateQueries(lq), invalidateQueries(iq))
             ELSE NotSeen,
   log   |-> IF m.hasCb THEN <<"write", "invalidate", "callback">>
             ELSE <<"write", "invalidate">>]

\* onSuccess?.() runs first, on the cache as the write found it; then the two
\* listing entries are invalidated.
onSuccessAdd(m, lq, iq, pq) ==
  [list  |-> invalidateQueries(lq),
   inf   |-> invalidateQueries(iq),
   point |-> pq,
   cbCalled |-> m.hasCb,
   cbSaw |-> IF m.hasCb THEN Seen(lq, iq) ELSE NotSeen,
   log   |-> IF m.hasCb THEN <<"write", "callback", "invalidate">>
             ELSE <<"write", "invalidate">>]

onSuccessRemove(m, lq, iq, pq) ==
  [list  |-> invalidateQueries(lq),
   inf   |-> invalidateQueries(iq),
   point |-> pq,
   cbCalled |-> m.hasCb,
   cbSaw |-> IF m.hasCb THEN Seen(lq, iq) ELSE NotSeen,
   log   |-> IF m.hasCb THEN <<"write", "callback", "invalidate">>
             ELSE <<"write", "invalidate">>]

Settle(r) ==
  /\ listQ' = r.list
  /\ infQ' = r.inf
  /\ pointQ' = r.point
  /\ mut' = [mut EXCEPT !.status = "success", !.cbCalled = r.cbCalled,
                        !.cbSaw = r.cbSaw, !.log = r.log]
  /\ UNCHANGED <<limit, listObservers, lookup>>

useUpdateFavoritedDaoMutation ==
  /\ mut.status = "pending" /\ mut.kind = "update"
  /\ daos' = updateFavoritedDaoInCache(daos, mut.dao)
  /\ Settle(onSuccessUpdate(mut, listQ, infQ, pointQ))

useAddFavoriteDaoMutation ==
  /\ mut.status = "pending" /\ mut.kind = "add"
  /\ daos' = addFavoriteDaoToCache(daos, mut.dao)
  /\ Settle(onSuccessAdd(mut, listQ, infQ, pointQ))

useRemoveFavoriteDaoMutation ==
  /\ mut.status = "pending" /\ mut.kind = "remove"
  /\ daos' = removeFavoriteDaoFromCache(daos, mut.dao)
  /\ Settle(onSuccessRemove(mut, listQ, infQ, pointQ))

\* A plausible slip: the invalidation sits in onSettled and runs on failure too.
onError_settled(m, lq, iq, pq) ==
  [list |-> invalidateQueries(lq), inf |-> invalidateQueries(iq), point |-> pq,
   cbCalled |-> m.hasCb, cbSaw |-> NotSeen, log |-> <<"invalidate">>]

\* None of the three mutations registers onError or onSettled.
onError(m, lq, iq, pq) ==
  [list |-> lq, inf |-> iq, point |-> pq,
   cbCalled |-> FALSE, cbSaw |-> NotSeen, log |-> <<>>]

\* The backend rejects the write: it fails without side effect.
mutationError ==
  /\ mut.status = "pending"
  /\ LET r == onError(mut, listQ, infQ, pointQ)
     IN  /\ listQ' = r.list
         /\ infQ' = r.inf
         /\ pointQ' = r.point
         /\ mut' = [mut EXCEPT !.status = "error", !.cbCalled = r.cbCalled,
                               !.cbSaw = r.cbSaw, !.log = r.log]
  /\ UNCHANGED <<daos, limit, listObservers, lookup>>

(***************************************************************************)
(* Specifications                                                          *)
(***************************************************************************)
MaxSkip == 1

DaoA == [address |-> "0xA", chain |-> 1, avatar |-> <<"cid", "a">>]

\* Chain 10 stands for a chain outside SUPPORTED_CHAIN_ID.
DaoUniverse ==
  {DaoA, [DaoA EXCEPT !.avatar = <<"cid", "b">>], [DaoA EXCEPT !.chain = 10]}

HookNetworks == {"ethereum", "unsupported"}

NoPointQueries == [k \in {} |-> 0]

Init ==
  /\ daos = <<>>
  /\ limit = DEFAULT_QUERY_PARAMS_limit
  /\ listQ = AbsentList
  /\ listObservers = {}
  /\ infQ = Absent
  /\ pointQ = NoPointQueries
  /\ mut = NoMutation
  /\ lookup = NoLookup

Next ==
  \/ \E kind \in {"add", "remove", "update"}, dao \in DaoUniverse, cb \in BOOLEAN :
       mutate(kind, dao, cb, MaxDaos)
  \/ useUpdateFavoritedDaoMutation
  \/ useAddFavoriteDaoMutation
  \/ useRemoveFavoriteDaoMutation
  \/ mutationError
  \/ useFavoritedDaosQuery(DEFAULT_QUERY_PARAMS_skip)
  \/ refetchFavoriteDaos
  \/ \E enabled \in BOOLEAN : useFavoritedDaosInfiniteQuery(enabled)
  \/ refetchInfiniteFavoriteDaos
  \/ \E n \in HookNetworks : useFavoritedDaoQuery("0xA", n)
  \/ \E key \in DOMAIN pointQ : refetchFavoritedDao(key)

Spec == Init /\ [][Next]_vars

\* Listing hooks mounted with different `skip` values, over a changing store.
NextListing ==
  \/ \E kind \in {"add", "remove", "update"}, dao \in DaoUniverse, cb \in BOOLEAN :
       mutate(kind, dao, cb, MaxDaos)
  \/ useUpdateFavoritedDaoMutation
  \/ useAddFavoriteDaoMutation
  \/ useRemoveFavoriteDaoMutation
  \/ mutationError
  \/ \E skip \in 0..MaxSkip : useFavoritedDaosQuery(skip)
  \/ refetchFavoriteDaos

SpecListing == Init /\ [][NextListing]_vars

\* The infinite listing hook with page size L over an unchanging store of N
\* records.
MaxN == 9

MaxLimit == 4

DaoAt(i) ==
  [address |-> ToString(i), chain |-> IF i % 2 = 0 THEN 1 ELSE 10,
   avatar |-> <<"cid", ToString(i)>>]

InitInfinite ==
  /\ \E N \in 0..MaxN : daos = [i \in 1..N |-> DaoAt(i)]
  /\ limit \in 1..MaxLimit
  /\ listQ = AbsentList
  /\ listObservers = {}
  /\ infQ = Absent
  /\ pointQ = NoPointQueries
  /\ mut = NoMutation
  /\ lookup = NoLookup

NextInfinite ==
  \/ \E enabled \in BOOLEAN : useFavoritedDaosInfiniteQuery(enabled)
  \/ fetchNextPage

SpecInfinite == InitInfinite /\ [][NextInfinite]_vars

\* Point lookups under every network of the registry, against records of
\* every supported chain and of an unsupported one.
MaxRegistryDaos == 1

RegistryChains == {SUPPORTED_CHAIN_ID[i] : i \in 1..Len(SUPPORTED_CHAIN_ID)} \cup {10}

RegistryDaos ==
  {[DaoA EXCEPT !.chain = c] : c \in RegistryChains}
    \cup {[DaoA EXCEPT !.avatar = <<"cid", "b">>]}

NextRegistry ==
  \/ \E kind \in {"add", "update"}, dao \in RegistryDaos :
       mutate(kind, dao, FALSE, MaxRegistryDaos)
  \/ useUpdateFavoritedDaoMutation
  \/ useAddFavoriteDaoMutation
  \/ \E a \in {"0xA", Undefined}, n \in NetworkNames \cup {Undefined} :
       useFavoritedDaoQuery(a, n)
  \/ \E key \in DOMAIN pointQ : refetchFavoritedDao(key)

SpecRegistry == Init /\ [][NextRegistry]_vars

(***************************************************************************)
(* Properties                                                              *)
(***************************************************************************)
UpdateSucceeds ==
  mut.status = "pending" /\ mut.kind = "update" /\ mut'.status = "success"

AddOrRemoveSucceeds ==
  mut.status = "pending" /\ mut.kind \in {"add", "remove"} /\ mut'.status = "success"

\* The point-lookup key an update of `dao` invalidates.
KeyOf(dao) == <<dao.address, getSupportedNetworkByChainId(dao.chain)>>

\* The slice of the store from offset `skip`.
SliceFrom(store, skip) ==
  [i \in 1..Max(0, Len(store) - skip) |-> store[skip + i]]

\* An entry marked invalid changes only by being fetched again from the store.
RefetchedFresh ==
  /\ (listQ.status = "success" /\ listQ.invalid /\ listQ' # listQ)
       => (Valid(listQ') /\ listQ'.data = SliceFrom(daos', listQ'.skip))
  /\ (infQ.status = "success" /\ infQ.invalid /\ infQ' # infQ)
       => (Valid(infQ') /\ infQ'.pages = <<daos'>>)
  /\ \A key \in DOMAIN pointQ :
       (pointQ[key].invalid /\ pointQ'[key] # pointQ[key])
         => (~pointQ'[key].invalid
             /\ pointQ'[key].data =
                  SelectSeq(daos', LAMBDA d : d.address = key[1]
                                              /\ d.chain = ChainIdOf(key[2])))

\* C1: a successful update mutation leaves the listing entry, the infinite
\* listing entry and the point-lookup entry keyed by (record.address, network
\* of record.chain) marked invalid (or not cached at all), so that the next
\* observation of each has to fetch; an entry marked invalid is only ever
\* replaced by data fetched from the store.
C1_UpdateInvalidatesThree ==
  [][/\ UpdateSucceeds =>
          /\ NeedsFetch(listQ')
          /\ NeedsFetch(infQ')
          /\ KeyOf(mut.dao) \in DOMAIN pointQ => pointQ'[KeyOf(mut.dao)].invalid
          /\ DOMAIN pointQ' = DOMAIN pointQ
     /\ RefetchedFresh]_vars

C1_Witness ==
  /\ mut.kind = "update" /\ mut.status = "success"
  /\ listQ.status = "success" /\ listQ.invalid
  /\ infQ.status = "success" /\ infQ.invalid
  /\ KeyOf(mut.dao) \in DOMAIN pointQ
  /\ pointQ[KeyOf(mut.dao)].invalid
  /\ pointQ[KeyOf(mut.dao)].data # <<mut.dao>>

\* C2: a successful add or remove mutation marks the listing entry and the
\* infinite listing entry invalid, changes nothing else of them, and leaves
\* every point-lookup entry (flag and data) as it was.
C2_AddRemoveInvalidateListingsOnly ==
  [][AddOrRemoveSucceeds =>
       /\ pointQ' = pointQ
       /\ NeedsFetch(listQ') /\ NeedsFetch(infQ')
       /\ listQ' = [listQ EXCEPT !.invalid = (listQ.status # "absent")]
       /\ infQ' = [infQ EXCEPT !.invalid = (infQ.status # "absent")]]_vars

C2_Witness ==
  /\ mut.kind = "add" /\ mut.status = "success"
  /\ HasKey(daos, mut.dao)
  /\ KeyOf(mut.dao) \in DOMAIN pointQ
  /\ ~pointQ[KeyOf(mut.dao)].invalid
  /\ pointQ[KeyOf(mut.dao)].data = <<>>
  /\ listQ.status = "success" /\ listQ.invalid
  /\ infQ.status = "success" /\ infQ.invalid

C4_FailureLeavesCacheAlone ==
  [][(mut.status = "pending" /\ mut'.status # "pending") =>
       /\ mut'.status \in {"success", "error"}
       /\ mut'.status = "error" =>
            /\ daos' = daos
            /\ listQ' = listQ /\ infQ' = infQ /\ pointQ' = pointQ
            /\ ~mut'.cbCalled
            /\ mut'.log = <<>>]_vars

C4_Witness ==
  /\ mut.status = "error" /\ mut.hasCb /\ ~mut.cbCalled
  /\ Valid(listQ) /\ Valid(infQ)
  /\ \E key \in DOMAIN pointQ : ~pointQ[key].invalid

EmptyPages(pages) == {n \in 1..Len(pages) : pages[n] = <<>>}

PageLengths(pages) == [n \in 1..Len(pages) |-> Len(pages[n])]

\* C5: over an unchanging store of N records and with page size L, page n is
\* the slice at offset L*n; a next page is announced exactly when the last
\* page holds L records; there are never more than N \div L + 1 pages, and
\* when no next page is announced there are exactly that many, they
\* concatenate to the store, and at most one of them is empty (only when L
\* divides N).  With L = 4 and N = 9 the pages have lengths 4, 4, 1.
C5_InfinitePagination ==
  infQ.status = "success" =>
    LET N == Len(daos)
        L == limit
        P == infQ.pages
    IN  /\ Len(P) >= 1 /\ Len(infQ.pageParams) = Len(P)
        /\ \A n \in 1..Len(P) :
             /\ infQ.pageParams[n] = n - 1
             /\ P[n] = [i \in 1..Max(0, Min(L, N - L * (n - 1))) |->
                          daos[L * (n - 1) + i]]
        /\ hasNextPage(infQ, L) <=> (Len(P[Len(P)]) = L)
        /\ Len(P) <= (N \div L) + 1
        /\ ~hasNextPage(infQ, L) =>
             /\ Len(P) = (N \div L) + 1
             /\ Flat(P) = daos
             /\ Cardinality(EmptyPages(P)) <= 1
             /\ EmptyPages(P) # {} => N % L = 0
             /\ (L = 4 /\ N = 9) => PageLengths(P) = <<4, 4, 1>>

C5_Witness ==
  /\ infQ.status = "success" /\ limit = 4 /\ Len(daos) = 9
  /\ ~hasNextPage(infQ, limit)
  /\ PageLengths(infQ.pages) = <<4, 4, 1>>

\* C6 as stated: the result of the infinite listing hook has one element per
\* fetched page.
C6_PagesKeptApart ==
  infQ.status = "success" => Len(InfiniteResult.pages) = Len(infQ.pages)

RECURSIVE SumLen(_)
SumLen(pages) == IF pages = <<>> THEN 0 ELSE Len(Head(pages)) + SumLen(Tail(pages))

\* C6, amended: the result transform flattens the pages: `pages` is one list
\* with an element per fetched record, in store order, each the record with
\* its avatar resolved for the network of its chain ("unsupported" when the
\* chain has none); `pageParams` still has one element per fetched page.
C6_PagesFlattened ==
  infQ.status = "success" =>
    LET R == InfiniteResult
    IN  /\ Len(R.pages) = SumLen(infQ.pages)
        /\ R.pageParams = infQ.pageParams
        /\ \A i \in 1..Len(R.pages) :
             /\ R.pages[i].address = daos[i].address
             /\ R.pages[i].chain = daos[i].chain
             /\ R.pages[i].avatar =
                  <<"url", IF daos[i].chain = 1 THEN "ethereum" ELSE "unsupported",
                    daos[i].avatar[2]>>

C6_Witness ==
  /\ infQ.status = "success"
  /\ Len(infQ.pages) = 3
  /\ Len(InfiniteResult.pages) = 9
  /\ InfiniteResult.pages[9].address = "9"

\* C7 as stated: what a listing hook mounted with `skip` hands to its caller
\* is the slice of the store from offset `skip`, whatever other listing hooks
\* are mounted.
C7_ListingHonoursSkip ==
  \A skip \in listObservers :
    Valid(listQ) => ListResult = addAvatarToDaos(SliceFrom(daos, skip))

\* Adding and updating favorites, with a listing hook and point lookups
\* mounted.
NextAdd ==
  \/ \E kind \in {"add", "update"}, dao \in DaoUniverse, cb \in BOOLEAN :
       mutate(kind, dao, cb, MaxDaos)
  \/ useAddFavoriteDaoMutation
  \/ useUpdateFavoritedDaoMutation
  \/ mutationError
  \/ useFavoritedDaosQuery(DEFAULT_QUERY_PARAMS_skip)
  \/ refetchFavoriteDaos
  \/ \E n \in HookNetworks : useFavoritedDaoQuery("0xA", n)
  \/ \E key \in DOMAIN pointQ : refetchFavoritedDao(key)

\* The refetches an invalidation sets off are the query client's own work and
\* are not postponed forever; mounting hooks and calling mutate is up to the
\* user.
FairSpecAdd ==
  /\ Init /\ [][NextAdd]_vars
  /\ WF_vars(refetchFavoriteDaos)
  /\ WF_vars(\E key \in DOMAIN pointQ : refetchFavoritedDao(key))

Added(dao) == mut.kind = "add" /\ mut.status = "success" /\ mut.dao = dao

InListing(dao) == \E i \in 1..Len(listQ.data) : listQ.data[i] = dao

PointHolds(dao) ==
  KeyOf(dao) \in DOMAIN pointQ /\ pointQ[KeyOf(dao)].data = <<dao>>

\* The listing half of C8: once a record has been added, a mounted listing
\* hook eventually shows it.
C8_ListingShowsAdded ==
  \A dao \in DaoUniverse :
    (Added(dao) /\ listQ.status = "success") ~> (~Added(dao) \/ InListing(dao))

C9_LookupDisabledWithoutError ==
  lookup.outcome # "none" =>
    /\ lookup.requested <=> (lookup.hasAddress /\ lookup.hasNetwork)
    /\ ~(lookup.hasAddress /\ lookup.hasNetwork) => lookup.outcome = "disabled"

\* The request half of C9: queryFn runs only when both arguments are given.
C9_RequestOnlyWhenBothGiven ==
  lookup.requested => (lookup.hasAddress /\ lookup.hasNetwork)

\* C10 as stated: every network name a point lookup is cached under is the
\* name its chain id maps back to.
C10_RoundTripEveryNetwork ==
  \A key \in DOMAIN pointQ :
    getSupportedNetworkByChainId(ChainIdOf(key[2])) = key[2]

\* C10, amended: for every network name but the "unsupported" placeholder the
\* chain id maps back to the name, so a successful update of a record marks
\* invalid the entry its point lookup was read under; the placeholder's chain
\* id 1 maps back to "ethereum", and an entry read under "unsupported" is left
\* as it was.  Every supported chain id maps to a network with that id, never
\* to "unsupported".
C10_RoundTripSupportedNetworks ==
  [][UpdateSucceeds =>
       /\ \A n \in SUPPORTED_NETWORKS : getSupportedNetworkByChainId(ChainIdOf(n)) = n
       /\ getSupportedNetworkByChainId(ChainIdOf("unsupported")) = "ethereum"
       /\ \A i \in 1..Len(SUPPORTED_CHAIN_ID) :
            LET n == getSupportedNetworkByChainId(SUPPORTED_CHAIN_ID[i])
            IN  n \in SUPPORTED_NETWORKS /\ ChainIdOf(n) = SUPPORTED_CHAIN_ID[i]
       /\ \A key \in DOMAIN pointQ :
            /\ (/\ key[1] = mut.dao.address
                /\ key[2] \in SUPPORTED_NETWORKS
                /\ ChainIdOf(key[2]) = mut.dao.chain) => pointQ'[key].invalid
            /\ key[2] = "unsupported" => pointQ'[key] = pointQ[key]]_vars

C10_Witness ==
  /\ mut.kind = "update" /\ mut.status = "success"
  /\ \E key \in DOMAIN pointQ :
       /\ key[2] = "goerli"
       /\ ChainIdOf(key[2]) = mut.dao.chain
       /\ pointQ[key].invalid
       /\ pointQ[key].data # <<>>

====
